---- MODULE Spec2Model ----
(***************************************************************************)
(* The multi-pass semantic analyser of bpftrace                            *)
(* (src/ast/semantic_analyser.cpp, src/types.cpp).                         *)
(*                                                                         *)
(* The analyser walks a given syntax tree num_passes_ times.  One step of  *)
(* the model is the walk of one probe (visit(Probe&) and everything it     *)
(* calls) or one decision of the pass loop of analyse(); create_maps() is  *)
(* a further step after analyse() has returned.  The visitors of           *)
(* expressions and statements are operators that thread the analyser's     *)
(* fields through the walk in the order of the code.                       *)
(***************************************************************************)
EXTENDS Integers, Sequences, FiniteSets, TLC

(***************************************************************************)
(* Bounds of the model.                                                    *)
(***************************************************************************)
MaxPasses == 3
MaxProbes == 2
MaxStmts == 2
MaxExtraAttachPoints == 1

(***************************************************************************)
(* Values declared in headers of the repository.                           *)
(***************************************************************************)
STRING_SIZE == 64
max_arg == 5

(***************************************************************************)
(* SizedType: kind, byte size, struct name of a cast.                      *)
(***************************************************************************)
SizedType(t, s) == [type |-> t, size |-> s, cast_type |-> ""]

NoneType == SizedType("none", 0)

\* SizedType::operator== compares kind and size only.
SizedTypeEq(a, b) == a.type = b.type /\ a.size = b.size

\* One argument of a map key: the kind and the size of an index expression.
MapKeyArgument(ty) == <<ty.type, ty.size>>

\* MapKey::operator!= : the two argument lists differ.
MapKeyNe(recorded, key) == recorded # key

(***************************************************************************)
(* probetype(): provider name to ProbeType; BEGIN and END are uprobes;     *)
(* any other name aborts.                                                  *)
(***************************************************************************)
probetype(type) ==
  IF type = "kprobe" THEN "kprobe"
  ELSE IF type = "kretprobe" THEN "kretprobe"
  ELSE IF type = "uprobe" THEN "uprobe"
  ELSE IF type = "uretprobe" THEN "uretprobe"
  ELSE IF type = "BEGIN" THEN "uprobe"
  ELSE IF type = "END" THEN "uprobe"
  ELSE IF type = "tracepoint" THEN "tracepoint"
  ELSE IF type = "profile" THEN "profile"
  ELSE "abort"

(***************************************************************************)
(* The syntax tree.  Every expression node has the same fields; vargs is   *)
(* the argument list (<<>> for the null list), map and var say that the    *)
(* expression is the right-hand side of an assignment to a map or to a     *)
(* variable.                                                               *)
(***************************************************************************)
Expr(node, ident, vargs) ==
  [node |-> node, ident |-> ident, vargs |-> vargs, map |-> FALSE, var |-> FALSE]

NoExpr == Expr("null", "", <<>>)

Integer(n) == Expr("Integer", n, <<>>)
String(s) == Expr("String", s, <<>>)
Builtin(ident) == Expr("Builtin", ident, <<>>)
Call(func, vargs) == Expr("Call", func, vargs)
Map(ident, vargs) == Expr("Map", ident, vargs)
Variable(ident) == Expr("Variable", ident, <<>>)
Binop(left, op, right) == Expr("Binop", op, <<left, right>>)

is_literal(e) == e.node \in {"Integer", "String"}
is_map(e) == e.node = "Map"

ExprStatement(e) ==
  [node |-> "ExprStatement", map |-> NoExpr, var |-> "", expr |-> e]
AssignMapStatement(m, e) ==
  [node |-> "AssignMapStatement", map |-> m, var |-> "",
   expr |-> [e EXCEPT !.map = TRUE]]
AssignVarStatement(v, e) ==
  [node |-> "AssignVarStatement", map |-> NoExpr, var |-> v,
   expr |-> [e EXCEPT !.var = TRUE]]

AttachPoint(provider, target, func, freq) ==
  [provider |-> provider, target |-> target, func |-> func, freq |-> freq]

Probe(aps, pred, stmts) ==
  [attach_points |-> aps, pred |-> pred, stmts |-> stmts]

(***************************************************************************)
(* The fields of the analyser that a walk reads and writes, as one record  *)
(* that the visitors pass along.  fault is "abort" once abort() is called  *)
(* and "ub" once a node is read as a String that is none.                  *)
(***************************************************************************)
Diag(msg, what) == [msg |-> msg, what |-> what]

Emit(c, msg, what) == [c EXCEPT !.err_ = Append(@, Diag(msg, what))]

Has(f, k) == k \in DOMAIN f

Insert(f, k, v) == IF k \in DOMAIN f THEN f ELSE f @@ (k :> v)

is_final_pass(c) == c.pass_ = c.num_passes_

\* The result of visiting an expression: the fields, and the node's type.
Res(c, ty) == [c |-> c, type |-> ty]


Chk(c, ok) == [c |-> c, ok |-> ok]

(***************************************************************************)
(* check_assignment, check_nargs, check_varargs, check_arg.  argtypes are  *)
(* the types the arguments got when they were visited.                     *)
(***************************************************************************)
check_assignment(c, call, want_map, want_var) ==
  IF want_map /\ want_var
  THEN IF ~call.map /\ ~call.var
       THEN Chk(Emit(c, "should be assigned to a map or a variable", call.ident), FALSE)
       ELSE Chk(c, TRUE)
  ELSE IF want_map
  THEN IF ~call.map
       THEN Chk(Emit(c, "should be assigned to a map", call.ident), FALSE)
       ELSE Chk(c, TRUE)
  ELSE IF want_var
  THEN IF ~call.var
       THEN Chk(Emit(c, "should be assigned to a variable", call.ident), FALSE)
       ELSE Chk(c, TRUE)
  ELSE IF call.map \/ call.var
       THEN Chk(Emit(c, "should not be used in an assignment", call.ident), FALSE)
       ELSE Chk(c, TRUE)

check_nargs(c, call, expected_nargs) ==
  IF Len(call.vargs) # expected_nargs
  THEN Chk(Emit(c, "wrong number of arguments", call.ident), FALSE)
  ELSE Chk(c, TRUE)

check_varargs(c, call, min_nargs, max_nargs) ==
  IF Len(call.vargs) < min_nargs
  THEN Chk(Emit(c, "requires at least", call.ident), FALSE)
  ELSE IF Len(call.vargs) > max_nargs
  THEN Chk(Emit(c, "can only take up to", call.ident), FALSE)
  ELSE Chk(c, TRUE)

check_arg(c, call, argtypes, type, arg_num, want_literal) ==
  IF call.vargs = <<>>
  THEN Chk(c, FALSE)
  ELSE IF want_literal /\ (~is_literal(call.vargs[arg_num + 1])
                           \/ argtypes[arg_num + 1].type # type)
  THEN Chk(Emit(c, "expects a literal", call.ident), FALSE)
  ELSE IF is_final_pass(c) /\ argtypes[arg_num + 1].type # type
  THEN Chk(Emit(c, "only supports arguments of type", call.ident), FALSE)
  ELSE Chk(c, TRUE)

(***************************************************************************)
(* verify_format_string: the conversions of a format string against the    *)
(* kinds of the arguments; the empty sequence when they agree.             *)
(***************************************************************************)
FormatTokens(fmt) ==
  IF fmt = "%d" THEN <<"integer">>
  ELSE IF fmt = "%s" THEN <<"string">>
  ELSE IF fmt = "%d %s" THEN <<"integer", "string">>
  ELSE <<>>

verify_format_string(fmt, args) ==
  LET tokens == FormatTokens(fmt) IN
  IF Len(args) < Len(tokens)
  THEN <<Diag("printf: Not enough arguments for format string", fmt)>>
  ELSE IF Len(args) > Len(tokens)
  THEN <<Diag("printf: Too many arguments for format string", fmt)>>
  ELSE IF \E i \in 1..Len(tokens) : args[i].type # tokens[i]
  THEN <<Diag("printf: specifier expects another type", fmt)>>
  ELSE <<>>

\* The number of argN, or -1 when the identifier is not arg and one digit.
ArgNum(ident) ==
  LET digits == [arg0 |-> 0, arg1 |-> 1, arg2 |-> 2, arg3 |-> 3, arg4 |-> 4,
                 arg5 |-> 5, arg6 |-> 6, arg7 |-> 7, arg8 |-> 8, arg9 |-> 9]
  IN IF ident \in DOMAIN digits THEN digits[ident] ELSE -1

(***************************************************************************)
(* The visitors of expressions.  Each takes the fields and the node and    *)
(* gives the fields and the node's type.  A visitor is written as the      *)
(* chain of the steps of its code, each step an operator applied to the    *)
(* result of the step before.                                              *)
(***************************************************************************)
RECURSIVE accept(_, _)
RECURSIVE accept_vargs(_, _, _)

visit_Integer(c, integer) == Res(c, SizedType("integer", 8))

visit_String(c, string) ==
  Res(IF Len(string.ident) > STRING_SIZE - 1
      THEN Emit(c, "String is too long", string.ident)
      ELSE c,
      SizedType("string", STRING_SIZE))

\* func_provider with BEGIN and END taken for providers without func.
func_provider_begin_end(c, provider, type) ==
  IF probetype(provider) = "abort"
  THEN Res([c EXCEPT !.fault = "abort"], type)
  ELSE IF probetype(provider) \in {"kprobe", "kretprobe", "tracepoint"}
  THEN Res(c, SizedType("sym", 8))
  ELSE IF probetype(provider) \in {"uprobe", "uretprobe"}
          /\ provider \notin {"BEGIN", "END"}
  THEN Res(c, SizedType("usym", 8))
  ELSE Res(Emit(c, "The func builtin can not be used with", provider), type)

\* What the func builtin does for one attach point; type is builtin.type so far.
func_provider(c, provider, type) ==
  IF probetype(provider) = "abort"
  THEN Res([c EXCEPT !.fault = "abort"], type)
  ELSE IF probetype(provider) \in {"kprobe", "kretprobe", "tracepoint"}
  THEN Res(c, SizedType("sym", 8))
  ELSE IF probetype(provider) \in {"uprobe", "uretprobe"}
  THEN Res(c, SizedType("usym", 8))
  ELSE Res(Emit(c, "The func builtin can not be used with", provider), type)

\* The loop of the func builtin over the attach points of probe_.
RECURSIVE func_attach_points(_, _)
func_attach_points(r, aps) ==
  IF aps = <<>> \/ r.c.fault # "none"
  THEN r
  ELSE func_attach_points(func_provider(r.c, Head(aps).provider, r.type), Tail(aps))

visit_Builtin(c, builtin) ==
  IF builtin.ident \in {"nsecs", "pid", "tid", "uid", "gid", "cpu", "retval"}
  THEN Res(c, SizedType("integer", 8))
  ELSE IF builtin.ident = "stack"
  THEN Res([c EXCEPT !.needs_stackid_map_ = TRUE], SizedType("stack", 8))
  ELSE IF builtin.ident = "ustack"
  THEN Res([c EXCEPT !.needs_stackid_map_ = TRUE], SizedType("ustack", 8))
  ELSE IF builtin.ident = "comm"
  THEN Res(c, SizedType("string", STRING_SIZE))
  ELSE IF builtin.ident = "func"
  THEN func_attach_points(Res(c, NoneType), c.probe_.attach_points)
  ELSE IF ArgNum(builtin.ident) >= 0
  THEN Res(IF ArgNum(builtin.ident) > max_arg
           THEN Emit(c, "arch doesn't support", builtin.ident)
           ELSE c,
           SizedType("integer", 8))
  ELSE Res(Emit(c, "Unknown builtin variable", builtin.ident), NoneType)

\* for (Expression *expr : *vargs) expr->accept(*this), collecting the types.
accept_varg(r, types) == [c |-> r.c, types |-> Append(types, r.type)]

accept_vargs(c, vargs, types) ==
  IF vargs = <<>>
  THEN [c |-> c, types |-> types]
  ELSE LET a == accept_varg(accept(c, Head(vargs)), types)
       IN accept_vargs(a.c, Tail(vargs), a.types)

\* delete(): after check_nargs, the argument must be a map.
delete_arg(n, call) ==
  IF n.ok /\ ~is_map(call.vargs[1])
  THEN Emit(n.c, "delete() expects a map to be provided", call.ident)
  ELSE n.c

\* printf(): on the final pass the format is verified against the other
\* arguments and the pair joins printf_args_.
printf_final(c, call, argtypes) ==
  IF is_final_pass(c)
  THEN IF call.vargs[1].node # "String"
       THEN [c EXCEPT !.fault = "ub"]
       ELSE [c EXCEPT
               !.err_ = @ \o verify_format_string(call.vargs[1].ident, Tail(argtypes)),
               !.printf_args_ = Append(@, <<call.vargs[1].ident, Tail(argtypes)>>)]
  ELSE c

printf_args(v, call, argtypes) ==
  IF v.ok
  THEN printf_final(check_arg(v.c, call, argtypes, "string", 0, TRUE).c, call, argtypes)
  ELSE v.c

\* visit(Call&) once the arguments have been visited.
call_func(c, call, argtypes) ==
  IF call.ident = "quantize"
  THEN Res(check_arg(check_nargs(check_assignment(c, call, TRUE, FALSE).c, call, 1).c,
                     call, argtypes, "integer", 0, FALSE).c,
           SizedType("quantize", 8))
  ELSE IF call.ident = "count"
  THEN Res(check_nargs(check_assignment(c, call, TRUE, FALSE).c, call, 0).c,
           SizedType("count", 8))
  ELSE IF call.ident = "delete"
  THEN Res(delete_arg(check_nargs(check_assignment(c, call, FALSE, FALSE).c, call, 1), call),
           NoneType)
  ELSE IF call.ident \in {"str", "sym", "usym"}
  THEN Res(check_arg(check_nargs(c, call, 1).c, call, argtypes, "integer", 0, FALSE).c,
           IF call.ident = "str" THEN SizedType("string", STRING_SIZE)
           ELSE IF call.ident = "sym" THEN SizedType("sym", 8)
           ELSE SizedType("usym", 8))
  ELSE IF call.ident = "printf"
  THEN Res(printf_args(check_varargs(check_assignment(c, call, FALSE, FALSE).c, call, 1, 7),
                       call, argtypes),
           NoneType)
  ELSE Res(Emit(c, "Unknown function", call.ident), NoneType)

call_visited(a, call) == call_func(a.c, call, a.types)

visit_Call(c, call) == call_visited(accept_vargs(c, call.vargs, <<>>), call)

\* The loop of visit(Map&) over the index expressions, building the key.
map_varg(r, key) == [c |-> r.c, key |-> Append(key, MapKeyArgument(r.type))]

RECURSIVE map_vargs(_, _, _)
map_vargs(c, vargs, key) ==
  IF vargs = <<>>
  THEN [c |-> c, key |-> key]
  ELSE LET k == map_varg(accept(c, Head(vargs)), key)
       IN map_vargs(k.c, Tail(vargs), k.key)

\* map_key_check that takes the key of every access as the recorded one.
map_key_check_overwrites(c, ident, key) ==
  [c EXCEPT !.map_key_ = (ident :> key) @@ @]

\* map_key_check that does not record the key of a first access.
map_key_check_no_insert(c, ident, key) ==
  IF Has(c.map_key_, ident) /\ MapKeyNe(c.map_key_[ident], key)
  THEN Emit(c, "Argument mismatch",
            [ident |-> ident, args |-> key, expects |-> c.map_key_[ident]])
  ELSE c

\* visit(Map&): the key against the one recorded for the name.
map_key_check(c, ident, key) ==
  IF Has(c.map_key_, ident)
  THEN IF MapKeyNe(c.map_key_[ident], key)
       THEN Emit(c, "Argument mismatch",
                 [ident |-> ident, args |-> key, expects |-> c.map_key_[ident]])
       ELSE c
  ELSE [c EXCEPT !.map_key_ = Insert(@, ident, key)]

\* visit(Map&): the type of the node from the value type recorded for the name.
map_value_type(c, ident) ==
  IF Has(c.map_val_, ident)
  THEN Res(c, c.map_val_[ident])
  ELSE Res(IF is_final_pass(c) THEN Emit(c, "Undefined map", ident) ELSE c,
           NoneType)

map_visited(k, map) == map_value_type(map_key_check(k.c, map.ident, k.key), map.ident)

visit_Map(c, map) == map_visited(map_vargs(c, map.vargs, <<>>), map)

visit_Variable(c, var) ==
  IF Has(c.variable_val_, var.ident)
  THEN Res(c, c.variable_val_[var.ident])
  ELSE Res(Emit(c, "Undefined variable", var.ident), NoneType)

\* visit(Binop&) once both operands have been visited.
binop_check(c, op, lhs, rhs) ==
  Res(IF is_final_pass(c)
      THEN IF lhs # rhs
           THEN Emit(c, "Type mismatch for operator",
                     [op |-> op, lhs |-> lhs, rhs |-> rhs])
           ELSE IF lhs # "integer" /\ op \notin {"==", "!="}
           THEN Emit(c, "operator can not be used on expressions of type",
                     [op |-> op, lhs |-> lhs, rhs |-> rhs])
           ELSE c
      ELSE c,
      SizedType("integer", 8))

binop_right(l, r, binop) == binop_check(r.c, binop.ident, l.type.type, r.type.type)

binop_left(l, binop) == binop_right(l, accept(l.c, binop.vargs[2]), binop)

visit_Binop(c, binop) == binop_left(accept(c, binop.vargs[1]), binop)

accept(c, e) ==
  IF c.fault # "none" THEN Res(c, NoneType)
  ELSE IF e.node = "Integer" THEN visit_Integer(c, e)
  ELSE IF e.node = "String" THEN visit_String(c, e)
  ELSE IF e.node = "Builtin" THEN visit_Builtin(c, e)
  ELSE IF e.node = "Call" THEN visit_Call(c, e)
  ELSE IF e.node = "Map" THEN visit_Map(c, e)
  ELSE IF e.node = "Variable" THEN visit_Variable(c, e)
  ELSE visit_Binop(c, e)

(***************************************************************************)
(* The visitors of statements, predicates, attach points and probes.       *)
(***************************************************************************)
visit_ExprStatement(c, stmt) == accept(c, stmt.expr).c

\* The struct name of a cast value against the one recorded for ident in
\* table ("map_val_" or "variable_val_").
cast_type_check(c, table, ident, type) ==
  IF type.type = "cast"
  THEN IF c[table][ident].cast_type # "" /\ c[table][ident].cast_type # type.cast_type
       THEN Emit(c, "Type mismatch",
                 [holder |-> table, ident |-> ident, assigned |-> type.cast_type,
                  contains |-> c[table][ident].cast_type])
       ELSE [c EXCEPT ![table][ident].cast_type = type.cast_type]
  ELSE c

\* assign_map_value that records the type of every assignment.
assign_map_value_overwrites(c, map_ident, type) ==
  [c EXCEPT !.map_val_ = (map_ident :> type) @@ @]

\* visit(AssignMapStatement&) once map and value have been visited: the
\* value type against the one recorded for the map.
assign_map_value(c, map_ident, type) ==
  IF Has(c.map_val_, map_ident)
  THEN IF c.map_val_[map_ident].type = "none"
       THEN IF is_final_pass(c)
            THEN Emit(c, "Undefined map", map_ident)
            ELSE [c EXCEPT !.map_val_[map_ident] = type]
       ELSE IF c.map_val_[map_ident].type # type.type
       THEN Emit(c, "Type mismatch",
                 [holder |-> "map", ident |-> map_ident, assigned |-> type.type,
                  contains |-> c.map_val_[map_ident].type])
       ELSE c
  ELSE [c EXCEPT !.map_val_ = Insert(@, map_ident, type)]

assign_map_visited(e, map_ident) ==
  IF e.c.fault # "none" THEN e.c
  ELSE cast_type_check(assign_map_value(e.c, map_ident, e.type),
                       "map_val_", map_ident, e.type)

visit_AssignMapStatement(c, assignment) ==
  assign_map_visited(accept(accept(c, assignment.map).c, assignment.expr),
                     assignment.map.ident)

\* visit(AssignVarStatement&) once the value has been visited.
assign_var_value(c, var_ident, type) ==
  IF Has(c.variable_val_, var_ident)
  THEN IF c.variable_val_[var_ident].type = "none"
       THEN IF is_final_pass(c)
            THEN Emit(c, "Undefined variable", var_ident)
            ELSE [c EXCEPT !.variable_val_[var_ident] = type]
       ELSE IF c.variable_val_[var_ident].type # type.type
       THEN Emit(c, "Type mismatch",
                 [holder |-> "variable", ident |-> var_ident, assigned |-> type.type,
                  contains |-> c.variable_val_[var_ident].type])
       ELSE c
  ELSE [c EXCEPT !.variable_val_ = Insert(@, var_ident, type)]

assign_var_visited(e, var_ident) ==
  IF e.c.fault # "none" THEN e.c
  ELSE cast_type_check(assign_var_value(e.c, var_ident, e.type),
                       "variable_val_", var_ident, e.type)

visit_AssignVarStatement(c, assignment) ==
  assign_var_visited(accept(c, assignment.expr), assignment.var)

visit_Statement(c, stmt) ==
  IF c.fault # "none" THEN c
  ELSE IF stmt.node = "ExprStatement" THEN visit_ExprStatement(c, stmt)
  ELSE IF stmt.node = "AssignMapStatement" THEN visit_AssignMapStatement(c, stmt)
  ELSE visit_AssignVarStatement(c, stmt)

predicate_check(r) ==
  IF is_final_pass(r.c) /\ r.type.type # "integer"
  THEN Emit(r.c, "Invalid type for predicate", r.type.type)
  ELSE r.c

visit_Predicate(c, pred) == predicate_check(accept(c, pred))

EmitIf(c, cond, msg, what) == IF cond THEN Emit(c, msg, what) ELSE c

\* begin_end_final on every pass.
begin_end_every_pass(c, ap) ==
  IF ap.provider = "BEGIN"
  THEN [EmitIf(c, c.has_begin_probe_,
               "More than one BEGIN probe defined", ap.provider)
          EXCEPT !.has_begin_probe_ = TRUE]
  ELSE [EmitIf(c, c.has_end_probe_,
               "More than one END probe defined", ap.provider)
          EXCEPT !.has_end_probe_ = TRUE]

\* visit(AttachPoint&) for BEGIN and END on the final pass: at most one of each.
begin_end_final(c, ap) ==
  IF is_final_pass(c)
  THEN IF ap.provider = "BEGIN"
       THEN [EmitIf(c, c.has_begin_probe_,
                    "More than one BEGIN probe defined", ap.provider)
               EXCEPT !.has_begin_probe_ = TRUE]
       ELSE [EmitIf(c, c.has_end_probe_,
                    "More than one END probe defined", ap.provider)
               EXCEPT !.has_end_probe_ = TRUE]
  ELSE c

\* visit(AttachPoint&) for profile: the frequency, after the unit of time.
profile_freq(c, ap) ==
  IF ap.func # ""
  THEN Emit(c, "profile probe must have an integer frequency", ap.provider)
  ELSE EmitIf(c, ap.freq <= 0,
              "profile frequency should be a positive integer", ap.provider)

visit_AttachPoint(c, ap) ==
  IF ap.provider \in {"kprobe", "kretprobe"}
  THEN EmitIf(EmitIf(c, ap.target # "", "kprobes should not have a target", ap.provider),
              ap.func = "", "kprobes should be attached to a function", ap.provider)
  ELSE IF ap.provider \in {"uprobe", "uretprobe"}
  THEN EmitIf(EmitIf(c, ap.target = "", "uprobes should have a target", ap.provider),
              ap.func = "", "uprobes should be attached to a function", ap.provider)
  ELSE IF ap.provider = "tracepoint"
  THEN EmitIf(c, ap.target = "" \/ ap.func = "",
              "tracepoint probe must have a target", ap.provider)
  ELSE IF ap.provider = "profile"
  THEN profile_freq(IF ap.target = ""
                    THEN Emit(c, "profile probe must have unit of time", ap.provider)
                    ELSE EmitIf(c, ap.target \notin {"hz", "us", "ms", "s"},
                                "is not an accepted unit of time", ap.target),
                    ap)
  ELSE IF ap.provider \in {"BEGIN", "END"}
  THEN begin_end_final(EmitIf(c, ap.target # "" \/ ap.func # "",
                              "BEGIN/END probes should not have a target", ap.provider),
                       ap)
  ELSE Emit(c, "Invalid provider", ap.provider)

RECURSIVE visit_AttachPoints(_, _)
visit_AttachPoints(c, aps) ==
  IF aps = <<>> THEN c
  ELSE visit_AttachPoints(visit_AttachPoint(c, Head(aps)), Tail(aps))

RECURSIVE visit_Statements(_, _)
visit_Statements(c, stmts) ==
  IF stmts = <<>> THEN c
  ELSE visit_Statements(visit_Statement(c, Head(stmts)), Tail(stmts))

\* bpftrace_.add_probe(probe): the probe joins the registered probes.
add_probe(c, probe) == [c EXCEPT !.probes_ = Append(@, probe)]

\* clear_variables that clears nothing.
clear_variables_not(c) == c

\* variable_val_.clear()
clear_variables(c) == [c EXCEPT !.variable_val_ = <<>>]

probe_enter(c, probe) == [clear_variables(c) EXCEPT !.probe_ = probe]

probe_pred(c, probe) ==
  IF probe.pred # NoExpr THEN visit_Predicate(c, probe.pred) ELSE c

\* probe_leave that registers the probe on every pass.
probe_leave_every_pass(c, probe) ==
  IF c.fault = "none" THEN add_probe(c, probe) ELSE c

probe_leave(c, probe) ==
  IF c.fault = "none" /\ is_final_pass(c) THEN add_probe(c, probe) ELSE c

visit_Probe(c, probe) ==
  probe_leave(
    visit_Statements(
      probe_pred(
        visit_AttachPoints(probe_enter(c, probe), probe.attach_points),
        probe),
      probe.stmts),
    probe)

(***************************************************************************)
(* The programs that are analysed.  A program has at most MaxProbes        *)
(* probes and at most MaxStmts statements in all; a probe has at least one *)
(* attach point, and a program at most MaxExtraAttachPoints more attach    *)
(* points than probes.  Includes are left out: visit(Include&) is empty.   *)
(***************************************************************************)
SeqsUpTo(S, lo, hi) == UNION {[1..k -> S] : k \in lo..hi}

\* The ways to deal k elements in order to n groups.
Cuts(k, n) ==
  {f \in [1..k -> 1..n] : \A i \in 1..k, j \in 1..k : i <= j => f[i] <= f[j]}

\* The elements of s dealt to group i.
Group(s, f, i) ==
  LET idx == {j \in 1..Len(s) : f[j] = i}
  IN IF idx = {} THEN <<>>
     ELSE SubSeq(s, CHOOSE j \in idx : \A k \in idx : j <= k,
                    CHOOSE j \in idx : \A k \in idx : j >= k)

Program(probes) == [probes |-> probes]

ProgramsOf(n, AttachPoints, extra, Preds, Bodies) ==
  {Program([i \in 1..n |->
              Probe(Group(aps, apcut, i), preds[i], Group(stmts, cut, i))]) :
     <<aps, apcut, preds, stmts, cut>> \in
       UNION {UNION {
         {<<a, ac, pr, st, sc>> :
            ac \in {f \in Cuts(Len(a), n) : \A i \in 1..n : \E j \in 1..Len(a) : f[j] = i},
            pr \in [1..n -> Preds],
            sc \in Cuts(Len(st), n)} :
         st \in Bodies} :
         a \in SeqsUpTo(AttachPoints, n, n + extra)}}

Programs(maxProbes, AttachPoints, extra, Preds, Bodies) ==
  UNION {ProgramsOf(n, AttachPoints, extra, Preds, Bodies) : n \in 1..maxProbes}

\* The statement lists of a program over the statements of Stmts.
Bodies(Stmts) == SeqsUpTo(Stmts, 0, MaxStmts)

kprobe_f == AttachPoint("kprobe", "", "f", 0)
kretprobe_f == AttachPoint("kretprobe", "", "f", 0)
uprobe_f == AttachPoint("uprobe", "/bin/sh", "f", 0)
uretprobe_f == AttachPoint("uretprobe", "/bin/sh", "f", 0)
tracepoint_f == AttachPoint("tracepoint", "sched", "f", 0)
profile_hz == AttachPoint("profile", "hz", "", 99)
BEGIN_ == AttachPoint("BEGIN", "", "", 0)
END_ == AttachPoint("END", "", "", 0)
bogus_ == AttachPoint("bogus", "", "f", 0)
uprobe_notarget == AttachPoint("uprobe", "", "f", 0)

\* Variables of a probe: reads, assignments of two kinds, a value read from a map.
VariableStmts ==
  {ExprStatement(Variable("x")),
   AssignVarStatement("x", Integer("1")),
   AssignVarStatement("x", String("s")),
   AssignVarStatement("x", Map("m", <<>>)),
   AssignMapStatement(Map("m", <<>>), Integer("1"))}

\* The value type of a map: reads and assignments of several kinds.
MapValueStmts ==
  {ExprStatement(Map("x", <<>>)),
   AssignMapStatement(Map("x", <<>>), Integer("1")),
   AssignMapStatement(Map("x", <<>>), Call("count", <<>>)),
   AssignMapStatement(Map("x", <<>>), Call("quantize", <<Integer("5")>>)),
   AssignMapStatement(Map("y", <<>>), Map("x", <<>>))}

\* The key of a map: accesses with several index tuples.
MapKeyStmts ==
  {AssignMapStatement(Map("x", <<Integer("1")>>), Integer("1")),
   AssignMapStatement(Map("x", <<String("s")>>), Integer("1")),
   AssignMapStatement(Map("x", <<>>), Integer("1")),
   AssignMapStatement(Map("x", <<Map("y", <<>>)>>), Integer("1")),
   AssignMapStatement(Map("y", <<>>), Integer("1"))}

\* Calls, with and without an assignment.
CallStmts ==
  {ExprStatement(Call("printf", <<String("hi")>>)),
   ExprStatement(Call("printf", <<>>)),
   ExprStatement(Call("printf", <<String("%d"), Map("x", <<>>)>>)),
   ExprStatement(Call("printf", <<Integer("1")>>)),
   AssignMapStatement(Map("x", <<>>), Integer("1")),
   AssignMapStatement(Map("x", <<>>), Call("printf", <<String("hi")>>))}

\* One statement of every other shape the visitors distinguish.
OtherStmts ==
  {ExprStatement(Builtin(b)) : b \in {"pid", "stack", "ustack", "comm", "arg0", "arg9", "nope"}}
  \cup {ExprStatement(Call("delete", <<a>>)) : a \in {Map("x", <<>>), Integer("1")}}
  \cup {ExprStatement(Call(f, <<Integer("1")>>)) : f \in {"str", "sym", "usym", "foo", "count"}}
  \cup {ExprStatement(Binop(l, op, String("s"))) :
          l \in {Integer("1"), String("s")}, op \in {"==", "<"}}
  \cup {ExprStatement(String("0123456789012345678901234567890123456789012345678901234567890123")),
        AssignVarStatement("x", Call("count", <<>>))}

\* The func builtin, its type recorded as the value type of map f.
FuncStmt == AssignMapStatement(Map("f", <<>>), Builtin("func"))

AllAttachPoints ==
  {kprobe_f, kretprobe_f, uprobe_f, uretprobe_f, tracepoint_f, profile_hz,
   BEGIN_, END_, bogus_, uprobe_notarget}

Preds == {NoExpr, Binop(Builtin("pid"), "==", Integer("1")), String("s")}

AllPrograms ==
  Programs(MaxProbes, {kprobe_f}, 0, {NoExpr}, Bodies(VariableStmts))
  \cup Programs(MaxProbes, {kprobe_f}, 0, {NoExpr}, Bodies(MapValueStmts))
  \cup Programs(MaxProbes, {kprobe_f}, 0, {NoExpr}, Bodies(MapKeyStmts))
  \cup Programs(MaxProbes, {kprobe_f}, 0, {NoExpr}, Bodies(CallStmts))
  \cup Programs(1, {kprobe_f}, 0, Preds, {<<s>> : s \in OtherStmts})
  \cup Programs(1, AllAttachPoints, MaxExtraAttachPoints, {NoExpr}, {<<FuncStmt>>})
  \cup Programs(MaxProbes, {BEGIN_, END_, kprobe_f}, MaxExtraAttachPoints, {NoExpr}, {<<>>})

(***************************************************************************)
(* The state: the tree, the fields of the analyser, the sinks of the       *)
(* BPFtrace object, and where analyse() and create_maps() stand.           *)
(***************************************************************************)
VARIABLES root_, num_passes_, pass_, pc, next, result,
          map_key_, map_val_, variable_val_, probe_,
          needs_stackid_map_, has_begin_probe_, has_end_probe_,
          err_, out_, probes_, printf_args_, maps_

vars == <<root_, num_passes_, pass_, pc, next, result,
          map_key_, map_val_, variable_val_, probe_,
          needs_stackid_map_, has_begin_probe_, has_end_probe_,
          err_, out_, probes_, printf_args_, maps_>>

Init ==
  /\ root_ \in AllPrograms
  /\ num_passes_ \in 2..MaxPasses
  /\ pass_ = 1
  /\ pc = "walk"
  /\ next = 1
  /\ result = -1
  /\ map_key_ = <<>>
  /\ map_val_ = <<>>
  /\ variable_val_ = <<>>
  /\ probe_ = NoExpr
  /\ needs_stackid_map_ = FALSE
  /\ has_begin_probe_ = FALSE
  /\ has_end_probe_ = FALSE
  /\ err_ = <<>>
  /\ out_ = <<>>
  /\ probes_ = <<>>
  /\ printf_args_ = <<>>
  /\ maps_ = <<>>

\* The fields a walk reads and writes.
Fields ==
  [pass_ |-> pass_, num_passes_ |-> num_passes_,
   map_key_ |-> map_key_, map_val_ |-> map_val_, variable_val_ |-> variable_val_,
   probe_ |-> probe_,
   needs_stackid_map_ |-> needs_stackid_map_,
   has_begin_probe_ |-> has_begin_probe_, has_end_probe_ |-> has_end_probe_,
   err_ |-> err_, probes_ |-> probes_, printf_args_ |-> printf_args_,
   fault |-> "none"]

\* The fields after the walk of a probe; abort() ends the process.
Walked(c) ==
  IF c.fault # "none"
  THEN /\ pc' = c.fault
       /\ UNCHANGED <<next, map_key_, map_val_, variable_val_, probe_,
                      needs_stackid_map_, has_begin_probe_, has_end_probe_,
                      err_, probes_, printf_args_>>
  ELSE /\ pc' = pc
       /\ next' = next + 1
       /\ map_key_' = c.map_key_
       /\ map_val_' = c.map_val_
       /\ variable_val_' = c.variable_val_
       /\ probe_' = c.probe_
       /\ needs_stackid_map_' = c.needs_stackid_map_
       /\ has_begin_probe_' = c.has_begin_probe_
       /\ has_end_probe_' = c.has_end_probe_
       /\ err_' = c.err_
       /\ probes_' = c.probes_
       /\ printf_args_' = c.printf_args_

\* visit(Program&) reaches the next probe and walks it.
VisitProbe ==
  /\ pc = "walk"
  /\ next <= Len(root_.probes)
  /\ Walked(visit_Probe(Fields, root_.probes[next]))
  /\ UNCHANGED <<root_, num_passes_, pass_, result, out_, maps_>>

\* PassFailed without its return: the loop goes on to the next pass.
PassFailedGoesOn ==
  /\ pc = "walk"
  /\ next > Len(root_.probes)
  /\ err_ # <<>>
  /\ out_' = out_ \o err_
  /\ pass_' = pass_ + 1
  /\ IF pass_ + 1 <= num_passes_
     THEN /\ next' = 1
          /\ UNCHANGED <<pc, result>>
     ELSE /\ pc' = "returned"
          /\ result' = 0
          /\ UNCHANGED next
  /\ UNCHANGED <<root_, num_passes_, map_key_, map_val_,
                 variable_val_, probe_, needs_stackid_map_, has_begin_probe_,
                 has_end_probe_, err_, probes_, printf_args_, maps_>>

\* analyse(): the walk of this pass left diagnostics; they are written out
\* and the pass number is returned.
PassFailed ==
  /\ pc = "walk"
  /\ next > Len(root_.probes)
  /\ err_ # <<>>
  /\ out_' = out_ \o err_
  /\ result' = pass_
  /\ pc' = "returned"
  /\ UNCHANGED <<root_, num_passes_, pass_, next, map_key_, map_val_,
                 variable_val_, probe_, needs_stackid_map_, has_begin_probe_,
                 has_end_probe_, err_, probes_, printf_args_, maps_>>

\* analyse(): the walk of this pass left no diagnostics; pass_++, and either
\* the next walk begins or the loop ends and 0 is returned.
PassSucceeded ==
  /\ pc = "walk"
  /\ next > Len(root_.probes)
  /\ err_ = <<>>
  /\ pass_' = pass_ + 1
  /\ IF pass_ + 1 <= num_passes_
     THEN /\ next' = 1
          /\ UNCHANGED <<pc, result>>
     ELSE /\ pc' = "returned"
          /\ result' = 0
          /\ UNCHANGED next
  /\ UNCHANGED <<root_, num_passes_, map_key_, map_val_,
                 variable_val_, probe_, needs_stackid_map_, has_begin_probe_,
                 has_end_probe_, err_, out_, probes_, printf_args_, maps_>>

\* What create_maps builds for debug or not.
MapObject(debug, name, type, key) ==
  [class |-> IF debug THEN "FakeMap" ELSE "Map", name |-> name, type |-> type, key |-> key]

create_maps(debug) ==
  IF \E name \in DOMAIN map_val_ : ~Has(map_key_, name)
  THEN [fault |-> "abort in create_maps", maps_ |-> maps_]
  ELSE [fault |-> "none",
        maps_ |-> [name \in DOMAIN map_val_ |->
                     MapObject(debug, name, map_val_[name], map_key_[name])]]

\* create_maps(debug), called once analyse() has returned.
CreateMaps ==
  /\ pc = "returned"
  /\ \E debug \in BOOLEAN :
       LET r == create_maps(debug)
       IN /\ pc' = IF r.fault = "none" THEN "created" ELSE r.fault
          /\ maps_' = r.maps_
  /\ UNCHANGED <<root_, num_passes_, pass_, next, result, map_key_, map_val_,
                 variable_val_, probe_, needs_stackid_map_, has_begin_probe_,
                 has_end_probe_, err_, out_, probes_, printf_args_>>

Next == VisitProbe \/ PassFailed \/ PassSucceeded \/ CreateMaps

Spec == Init /\ [][Next]_vars

(***************************************************************************)
(* What the claims speak of.                                               *)
(***************************************************************************)
NProbes == Len(root_.probes)

\* The diagnostics in the buffer with message msg.
Diags(msg) == {err_[i] : i \in {j \in 1..Len(err_) : err_[j].msg = msg}}

\* Probe i has been walked in the pass that is under way (or was the last).
WalkedInPass(i) == i \in 1..NProbes /\ i < next

(***************************************************************************)
(* C1: analyse() walks the whole tree for pass 1, 2, ... in that order; a  *)
(* pass begins only after the pass before it ended with an empty buffer;   *)
(* analyse() returns 0 exactly when all num_passes_ walks ended with an    *)
(* empty buffer, and otherwise the number of the first pass that left the  *)
(* buffer non-empty, after which nothing more is walked.                   *)
(***************************************************************************)
C1_Step ==
  /\ pass_' \in {pass_, pass_ + 1}
  /\ pass_' = pass_ + 1 => pc = "walk" /\ next > NProbes /\ err_ = <<>>
  /\ next' # next =>
       \/ next' = next + 1 /\ next <= NProbes /\ pass_' = pass_ /\ pc = "walk"
       \/ next' = 1 /\ pass_' = pass_ + 1 /\ pass_' <= num_passes_
  /\ pc = "walk" /\ pc' = "returned" =>
       /\ next > NProbes
       /\ IF err_ = <<>>
          THEN result' = 0 /\ pass_ = num_passes_
          ELSE result' = pass_ /\ pass_ <= num_passes_
  /\ pc # "walk" =>
       pass_' = pass_ /\ next' = next /\ err_' = err_ /\ result' = result

C1_State ==
  /\ pass_ \in 1..(num_passes_ + 1)
  /\ pc = "walk" => pass_ <= num_passes_ /\ result = -1
  /\ pc = "returned" =>
       /\ result = 0 <=> err_ = <<>>
       /\ result = 0 <=> pass_ = num_passes_ + 1
       /\ result # 0 => result = pass_ /\ next = NProbes + 1
       /\ out_ = err_

C1_PassDriver == [][C1_Step]_vars /\ []C1_State

\* C1 witness: analyse() has returned 2 of 3 passes.
C1_Witness == pc = "returned" /\ result = 2 /\ num_passes_ = 3

(***************************************************************************)
(* C2: with two passes, a program whose only irregularity is that a        *)
(* variable or a map is read in a probe before the statement of the same   *)
(* probe that assigns it is analysed with result 0.                        *)
(***************************************************************************)
ReadThenAssignVariable ==
  Program(<<Probe(<<kprobe_f>>, NoExpr,
                  <<ExprStatement(Variable("x")),
                    AssignVarStatement("x", Integer("1"))>>)>>)

ReadThenAssignMap ==
  Program(<<Probe(<<kprobe_f>>, NoExpr,
                  <<ExprStatement(Map("x", <<>>)),
                    AssignMapStatement(Map("x", <<>>), Integer("1"))>>)>>)

C2_ForwardReference ==
  (num_passes_ = 2 /\ root_ \in {ReadThenAssignVariable, ReadThenAssignMap}
     /\ pc = "returned")
  => result = 0

(***************************************************************************)
(* The map accesses of the program, and the key an access has.             *)
(***************************************************************************)
RECURSIVE MapsIn(_)
MapsIn(e) ==
  (IF e.node = "Map" THEN {e} ELSE {})
  \cup UNION {MapsIn(e.vargs[i]) : i \in 1..Len(e.vargs)}

MapsOfStmt(stmt) == MapsIn(stmt.map) \cup MapsIn(stmt.expr)

MapsOfProbe(probe) ==
  MapsIn(probe.pred) \cup UNION {MapsOfStmt(probe.stmts[i]) : i \in 1..Len(probe.stmts)}

AllMaps == UNION {MapsOfProbe(root_.probes[i]) : i \in 1..NProbes}

\* The access has only literals as indices: its key is the same in every pass.
LiteralIndices(m) == \A i \in 1..Len(m.vargs) : is_literal(m.vargs[i])

\* The indices are literals or maps without indices.
SimpleIndices(m) ==
  \A i \in 1..Len(m.vargs) :
    is_literal(m.vargs[i]) \/ (is_map(m.vargs[i]) /\ m.vargs[i].vargs = <<>>)

\* The (kind, size) of an index expression, a map read having the value
\* type recorded for the map now.
IndexKey(e) ==
  IF e.node = "Integer" THEN <<"integer", 8>>
  ELSE IF e.node = "String" THEN <<"string", STRING_SIZE>>
  ELSE IF Has(map_val_, e.ident)
       THEN <<map_val_[e.ident].type, map_val_[e.ident].size>>
       ELSE <<"none", 0>>

KeyOf(m) == [i \in 1..Len(m.vargs) |-> IndexKey(m.vargs[i])]

ArgumentMismatch(m) ==
  Diag("Argument mismatch",
       [ident |-> m.ident, args |-> KeyOf(m), expects |-> map_key_[m.ident]])

(***************************************************************************)
(* C3: when analyse() returns 0, all accesses to a map name, in whatever   *)
(* probe, have the same sequence of (kind, size) as index tuple, the one   *)
(* recorded for the name; an access that has been visited with a tuple     *)
(* that differs from the recorded one has left an 'Argument mismatch'      *)
(* diagnostic naming both, and analyse() does not return 0.                *)
(***************************************************************************)
C3_KeySignature ==
  /\ (pc = "returned" /\ result = 0) =>
       \A a \in AllMaps : SimpleIndices(a) =>
         /\ Has(map_key_, a.ident)
         /\ KeyOf(a) = map_key_[a.ident]
         /\ \A b \in AllMaps :
              (SimpleIndices(b) /\ b.ident = a.ident) => KeyOf(a) = KeyOf(b)
  /\ \A i \in 1..NProbes : WalkedInPass(i) =>
       \A a \in MapsOfProbe(root_.probes[i]) : LiteralIndices(a) =>
         /\ Has(map_key_, a.ident)
         /\ KeyOf(a) # map_key_[a.ident] =>
              /\ ArgumentMismatch(a) \in Diags("Argument mismatch")
              /\ pc = "returned" => result # 0
  /\ \A d \in Diags("Argument mismatch") :
       d.what.args # d.what.expects /\ d.what.expects = map_key_[d.what.ident]

\* C3 witness: two probes with one access each to the same map, the second
\* with another index tuple, and the diagnostic.
C3_Witness ==
  /\ pc = "returned"
  /\ NProbes = 2
  /\ \E a \in MapsOfProbe(root_.probes[1]), b \in MapsOfProbe(root_.probes[2]) :
       /\ a.ident = b.ident
       /\ LiteralIndices(a) /\ LiteralIndices(b)
       /\ KeyOf(a) # KeyOf(b)
       /\ ArgumentMismatch(b) \in Diags("Argument mismatch")

(***************************************************************************)
(* The assignments of the program whose value has a kind that no pass      *)
(* changes.                                                                *)
(***************************************************************************)
StaticKind(e) ==
  IF e.node = "Integer" THEN "integer"
  ELSE IF e.node = "String" THEN "string"
  ELSE IF e.node = "Call" /\ e.ident \in {"count", "quantize"} THEN e.ident
  ELSE "none"

StmtsOf(i) == {root_.probes[i].stmts[j] : j \in 1..Len(root_.probes[i].stmts)}

MapAssignments(i) ==
  {s \in StmtsOf(i) : s.node = "AssignMapStatement" /\ StaticKind(s.expr) # "none"}

VarAssignments(i) ==
  {s \in StmtsOf(i) : s.node = "AssignVarStatement" /\ StaticKind(s.expr) # "none"}

TypeMismatch(holder, ident, assigned, contains) ==
  Diag("Type mismatch",
       [holder |-> holder, ident |-> ident, assigned |-> assigned,
        contains |-> contains])

(***************************************************************************)
(* C4: the kind recorded for a map, once it is not none, never changes;    *)
(* an assignment to a map (in any probe) or to a variable (in the probe    *)
(* walked) whose value has another kind than the recorded one has left a   *)
(* 'Type mismatch' diagnostic naming both kinds, and analyse() returns 0   *)
(* for no program with two such assignments.                               *)
(***************************************************************************)
C4_KindKept ==
  \A n \in DOMAIN map_val_ :
    map_val_[n].type # "none" =>
      n \in DOMAIN map_val_' /\ map_val_'[n].type = map_val_[n].type

C4_Mismatch ==
  /\ \A i \in 1..NProbes : WalkedInPass(i) =>
       \A s \in MapAssignments(i) :
         /\ Has(map_val_, s.map.ident)
         /\ map_val_[s.map.ident].type \notin {"none", StaticKind(s.expr)} =>
              TypeMismatch("map", s.map.ident, StaticKind(s.expr),
                           map_val_[s.map.ident].type) \in Diags("Type mismatch")
  /\ (next > 1 /\ next <= NProbes + 1) =>
       \A s \in VarAssignments(next - 1) :
         /\ Has(variable_val_, s.var)
         /\ variable_val_[s.var].type \notin {"none", StaticKind(s.expr)} =>
              TypeMismatch("variable", s.var, StaticKind(s.expr),
                           variable_val_[s.var].type) \in Diags("Type mismatch")
  /\ (pc = "returned" /\ result = 0) =>
       /\ \A i \in 1..NProbes, j \in 1..NProbes :
            \A s \in MapAssignments(i), t \in MapAssignments(j) :
              s.map.ident = t.map.ident => StaticKind(s.expr) = StaticKind(t.expr)
       /\ \A i \in 1..NProbes :
            \A s \in VarAssignments(i), t \in VarAssignments(i) :
              s.var = t.var => StaticKind(s.expr) = StaticKind(t.expr)

C4_ValueKind == [][C4_KindKept]_vars /\ []C4_Mismatch

\* C4 witness: @x = count(); @x = quantize(5) has failed with the mismatch
\* between count and quantize.
C4_Witness ==
  /\ pc = "returned"
  /\ result = 1
  /\ map_val_ = ("x" :> SizedType("count", 8))
  /\ TypeMismatch("map", "x", "quantize", "count") \in Diags("Type mismatch")

(***************************************************************************)
(* C5: no 'Undefined map' and no 'Undefined variable' diagnostic is in the *)
(* buffer during a pass before the final one.                              *)
(***************************************************************************)
C5_UndefinedOnlyFinal ==
  \A d \in Diags("Undefined map") \cup Diags("Undefined variable") :
    pass_ = num_passes_

(***************************************************************************)
(* The variables a probe assigns and reads.                                *)
(***************************************************************************)
RECURSIVE VarsIn(_)
VarsIn(e) ==
  (IF e.node = "Variable" THEN {e.ident} ELSE {})
  \cup UNION {VarsIn(e.vargs[i]) : i \in 1..Len(e.vargs)}

AssignedVars(i) == {s.var : s \in {t \in StmtsOf(i) : t.node = "AssignVarStatement"}}

ReadVars(i) ==
  VarsIn(root_.probes[i].pred)
  \cup UNION {VarsIn(s.expr) \cup VarsIn(s.map) : s \in StmtsOf(i)}

\* The number of assignments to variable v among the statements of probe i.
NAssignments(i, v) ==
  Cardinality({j \in 1..Len(root_.probes[i].stmts) :
                 /\ root_.probes[i].stmts[j].node = "AssignVarStatement"
                 /\ root_.probes[i].stmts[j].var = v})

(***************************************************************************)
(* C6: after the walk of a probe the variable table holds only variables   *)
(* that this probe assigns; a variable that a probe reads and does not     *)
(* assign has left 'Undefined variable', whatever the other probes assign  *)
(* and in whatever order; a 'Type mismatch' for a variable comes only from *)
(* two assignments in one probe.                                           *)
(***************************************************************************)
C6_ProbeIsolation ==
  /\ (next > 1 /\ next <= NProbes + 1) =>
       DOMAIN variable_val_ \subseteq AssignedVars(next - 1)
  /\ \A i \in 1..NProbes : WalkedInPass(i) =>
       \A v \in ReadVars(i) \ AssignedVars(i) :
         Diag("Undefined variable", v) \in Diags("Undefined variable")
  /\ \A d \in Diags("Type mismatch") :
       d.what.holder = "variable" =>
         \E i \in 1..NProbes : WalkedInPass(i) /\ NAssignments(i, d.what.ident) >= 2

\* C6 witness: probe 1 assigns x, probe 2 only reads it, both are walked.
C6_Witness ==
  /\ NProbes = 2
  /\ next = 3
  /\ "x" \in AssignedVars(1)
  /\ "x" \in ReadVars(2) \ AssignedVars(2)
  /\ Diag("Undefined variable", "x") \in Diags("Undefined variable")

(***************************************************************************)
(* The attach points of the program.                                       *)
(***************************************************************************)
AttachPointsOf(i) ==
  {root_.probes[i].attach_points[j] : j \in 1..Len(root_.probes[i].attach_points)}

\* The number of attach points of the program with the provider.
NProvider(provider) ==
  Cardinality({ij \in (1..NProbes) \X (1..(MaxProbes + MaxExtraAttachPoints)) :
                 /\ ij[2] <= Len(root_.probes[ij[1]].attach_points)
                 /\ root_.probes[ij[1]].attach_points[ij[2]].provider = provider})

WellFormedAttachPoints ==
  {kprobe_f, kretprobe_f, uprobe_f, uretprobe_f, tracepoint_f, profile_hz,
   BEGIN_, END_}

\* The program is attach points only, each of them well formed.
OnlyAttachPoints ==
  \A i \in 1..NProbes :
    /\ root_.probes[i].pred = NoExpr
    /\ root_.probes[i].stmts = <<>>
    /\ AttachPointsOf(i) \subseteq WellFormedAttachPoints

MoreThanOne(provider) ==
  Diag(IF provider = "BEGIN" THEN "More than one BEGIN probe defined"
       ELSE "More than one END probe defined", provider)

(***************************************************************************)
(* C7: 'More than one BEGIN probe defined' (and the same for END) is in    *)
(* the buffer only on the final pass and only for a program with two or    *)
(* more BEGIN attach points; such a program never gets result 0, gets the  *)
(* diagnostic when it fails on the final pass, and, when it has no other   *)
(* defect, passes every pass before the final one without diagnostics and  *)
(* fails on the final one.                                                 *)
(***************************************************************************)
C7_BeginEnd ==
  \A provider \in {"BEGIN", "END"} :
    /\ \A d \in Diags(MoreThanOne(provider).msg) :
         pass_ = num_passes_ /\ NProvider(provider) >= 2
    /\ (pc = "returned" /\ NProvider(provider) >= 2) =>
         /\ result # 0
         /\ result = num_passes_ => MoreThanOne(provider) \in Diags(MoreThanOne(provider).msg)
    /\ (OnlyAttachPoints /\ NProvider(provider) >= 2) =>
         /\ pass_ < num_passes_ => err_ = <<>>
         /\ pc = "returned" => result = num_passes_

\* C7 witness: two probes, each BEGIN, have failed on the final pass.
C7_Witness ==
  /\ pc = "returned"
  /\ result = num_passes_
  /\ NProbes = 2
  /\ root_.probes[1].attach_points = <<BEGIN_>>
  /\ root_.probes[2].attach_points = <<BEGIN_>>
  /\ err_ = <<MoreThanOne("BEGIN")>>

(***************************************************************************)
(* The printf calls of the program in the order in which they are visited. *)
(***************************************************************************)
RECURSIVE PrintfsInArgs(_)
RECURSIVE PrintfsIn(_)
PrintfsIn(e) ==
  PrintfsInArgs(e.vargs)
  \o (IF e.node = "Call" /\ e.ident = "printf" THEN <<e>> ELSE <<>>)

PrintfsInArgs(vargs) ==
  IF vargs = <<>> THEN <<>> ELSE PrintfsIn(Head(vargs)) \o PrintfsInArgs(Tail(vargs))

RECURSIVE PrintfsOfStmts(_)
PrintfsOfStmts(stmts) ==
  IF stmts = <<>> THEN <<>>
  ELSE PrintfsIn(Head(stmts).map) \o PrintfsIn(Head(stmts).expr)
       \o PrintfsOfStmts(Tail(stmts))

\* The printf calls of probes 1..k.
RECURSIVE PrintfsOfProbes(_)
PrintfsOfProbes(k) ==
  IF k = 0 THEN <<>>
  ELSE PrintfsOfProbes(k - 1) \o PrintfsIn(root_.probes[k].pred)
       \o PrintfsOfStmts(root_.probes[k].stmts)

\* The probes walked on the final pass.
NFinal == IF pass_ < num_passes_ THEN 0
          ELSE IF pass_ = num_passes_ THEN next - 1
          ELSE NProbes

\* The pair recorded is the one of the call.
Recorded(pair, call) ==
  /\ Len(call.vargs) >= 1
  /\ pair[1] = call.vargs[1].ident
  /\ Len(pair[2]) = Len(call.vargs) - 1

(***************************************************************************)
(* C8: before the final pass no probe is registered and no printf pair is  *)
(* recorded; on the final pass the probes walked are registered once each  *)
(* in the order of the program and their printf calls are recorded once    *)
(* each, so that after result 0 there is one entry for each probe and for  *)
(* each printf call.                                                       *)
(***************************************************************************)
C8_Sinks ==
  /\ pass_ < num_passes_ => probes_ = <<>> /\ printf_args_ = <<>>
  /\ probes_ = SubSeq(root_.probes, 1, NFinal)
  /\ Len(printf_args_) = Len(PrintfsOfProbes(NFinal))
  /\ \A i \in 1..Len(printf_args_) :
       Recorded(printf_args_[i], PrintfsOfProbes(NFinal)[i])
  /\ (pc = "returned" /\ result = 0) =>
       /\ probes_ = root_.probes
       /\ Len(printf_args_) = Len(PrintfsOfProbes(NProbes))
  /\ pc # "ub"

\* C8 witness: two probes with printf("hi") in the second, result 0.
C8_Witness ==
  /\ pc = "returned"
  /\ result = 0
  /\ NProbes = 2
  /\ Len(probes_) = 2
  /\ root_.probes[2].stmts = <<ExprStatement(Call("printf", <<String("hi")>>))>>
  /\ printf_args_ = << <<"hi", <<>>>> >>

(***************************************************************************)
(* The programs of one probe whose only statement is @f = func.            *)
(***************************************************************************)
FuncProgram ==
  /\ NProbes = 1
  /\ root_.probes[1].pred = NoExpr
  /\ root_.probes[1].stmts = <<FuncStmt>>

FuncWalked == FuncProgram /\ pc = "walk" /\ pass_ = 1 /\ next = 2

FuncProviders ==
  [j \in 1..Len(root_.probes[1].attach_points) |->
     root_.probes[1].attach_points[j].provider]

FuncDiag(provider) == Diag("The func builtin can not be used with", provider)

(***************************************************************************)
(* C9 as claimed: with one attach point, kprobe, kretprobe and tracepoint  *)
(* give sym(8), uprobe and uretprobe give usym(8), and profile, BEGIN and  *)
(* END give the diagnostic and no sym or usym.                             *)
(***************************************************************************)
C9_FuncAsClaimed ==
  (FuncWalked /\ Len(FuncProviders) = 1) =>
    /\ FuncProviders[1] \in {"kprobe", "kretprobe", "tracepoint"} =>
         map_val_["f"] = SizedType("sym", 8)
    /\ FuncProviders[1] \in {"uprobe", "uretprobe"} =>
         map_val_["f"] = SizedType("usym", 8)
    /\ FuncProviders[1] \in {"profile", "BEGIN", "END"} =>
         /\ FuncDiag(FuncProviders[1]) \in Diags(FuncDiag("").msg)
         /\ map_val_["f"].type \notin {"sym", "usym"}

\* What func gives for a provider: "sym", "usym" or, for profile, "error".
FuncClass(provider) ==
  IF provider \in {"kprobe", "kretprobe", "tracepoint"} THEN "sym"
  ELSE IF provider \in {"uprobe", "uretprobe", "BEGIN", "END"} THEN "usym"
  ELSE "error"

\* The last attach point that is not profile decides the type.
FuncType ==
  LET typed == {j \in 1..Len(FuncProviders) : FuncClass(FuncProviders[j]) # "error"}
  IN IF typed = {} THEN NoneType
     ELSE SizedType(FuncClass(FuncProviders[CHOOSE j \in typed : \A k \in typed : k <= j]), 8)

(***************************************************************************)
(* C9: kprobe, kretprobe and tracepoint give sym(8); uprobe, uretprobe     *)
(* and also BEGIN and END give usym(8); only profile gives the diagnostic  *)
(* and no sym or usym.  Of several attach points the last that is not      *)
(* profile decides the type.                                               *)
(***************************************************************************)
C9_Func ==
  (FuncWalked /\ "bogus" \notin {FuncProviders[j] : j \in 1..Len(FuncProviders)}) =>
    /\ map_val_["f"] = FuncType
    /\ Len(FuncProviders) = 1 =>
         /\ FuncClass(FuncProviders[1]) = "sym" => map_val_["f"] = SizedType("sym", 8)
         /\ FuncClass(FuncProviders[1]) = "usym" => map_val_["f"] = SizedType("usym", 8)
         /\ FuncClass(FuncProviders[1]) = "error" =>
              map_val_["f"].type \notin {"sym", "usym"}
    /\ \A j \in 1..Len(FuncProviders) :
         FuncProviders[j] = "profile" <=>
           FuncDiag(FuncProviders[j]) \in Diags(FuncDiag("").msg)
    /\ Diags(FuncDiag("").msg) \subseteq {FuncDiag("profile")}

\* C9 witness: func in a BEGIN probe got usym(8) and no diagnostic.
C9_Witness ==
  /\ FuncWalked
  /\ FuncProviders = <<"BEGIN">>
  /\ map_val_["f"] = SizedType("usym", 8)
  /\ err_ = <<>>

(***************************************************************************)
(* C10: every map name with a value type has a key signature, in every     *)
(* state; create_maps() never aborts and builds one map for each name      *)
(* with a value type, of that type and with that key.                      *)
(***************************************************************************)
C10_MapsHaveKeys ==
  /\ DOMAIN map_val_ \subseteq DOMAIN map_key_
  /\ pc # "abort in create_maps"
  /\ pc = "created" =>
       /\ DOMAIN maps_ = DOMAIN map_val_
       /\ \A name \in DOMAIN maps_ :
            /\ maps_[name].name = name
            /\ maps_[name].type = map_val_[name]
            /\ maps_[name].key = map_key_[name]

\* C10 witness: create_maps() has built two maps.
C10_Witness == pc = "created" /\ Cardinality(DOMAIN maps_) = 2

(***************************************************************************)
(* Key key is the recorded key rec with its none-typed placeholders, of    *)
(* which there is at least one, given a type, and nothing else changed.    *)
(***************************************************************************)
Placeholder == MapKeyArgument(NoneType)

FillsIn(rec, key) ==
  /\ Len(rec) = Len(key)
  /\ \E i \in 1..Len(rec) : rec[i] = Placeholder /\ key[i] # Placeholder
  /\ \A i \in 1..Len(rec) : rec[i] = key[i] \/ rec[i] = Placeholder

\* A recorded key stays, or has placeholders filled in before the final pass.
C11_Fixed ==
  \A ident \in DOMAIN map_key_ :
    /\ ident \in DOMAIN map_key_'
    /\ \/ map_key_'[ident] = map_key_[ident]
       \/ pass_ < num_passes_ /\ FillsIn(map_key_[ident], map_key_'[ident])

\* An access that fills in the placeholders of the recorded key before the
\* final pass is taken as the recorded key, not as a mismatch.
C11_Filled ==
  pass_ < num_passes_ =>
    \A d \in Diags("Argument mismatch") : ~FillsIn(d.what.expects, d.what.args)

(***************************************************************************)
(* C11: the key recorded for a map name at its first access never changes  *)
(* afterwards, except that before the final pass a recorded key with       *)
(* none-typed placeholders is filled in with the index types inferred      *)
(* later; on the final pass the recorded key is never modified.            *)
(***************************************************************************)
C11_KeyFixed == [][C11_Fixed]_vars /\ []C11_Filled

\* The recorded key of a name never changes at all, in any pass.
C11_NeverChanges ==
  [][\A ident \in DOMAIN map_key_ :
       ident \in DOMAIN map_key_' /\ map_key_'[ident] = map_key_[ident]]_vars

\* @x[@y] was recorded with a placeholder, @y has an integer value since, and
\* pass 2 of 3 has left an 'Argument mismatch' for the access with integer.
C11_PlaceholderKept ==
  /\ num_passes_ = 3
  /\ pc = "returned"
  /\ result = 2
  /\ Has(map_key_, "x") /\ map_key_["x"] = <<Placeholder>>
  /\ Has(map_val_, "y") /\ map_val_["y"] = SizedType("integer", 8)
  /\ Diag("Argument mismatch",
          [ident |-> "x", args |-> <<MapKeyArgument(SizedType("integer", 8))>>,
           expects |-> <<Placeholder>>]) \in Diags("Argument mismatch")

====
